---- MODULE Spec2Model ----
(***************************************************************************)
(* Model of the email-automation backend: the /generate handler of         *)
(* main.py (temperature spread, one model call per variant, parsing and    *)
(* validation of each answer) and the retry loop of send_email_smtp in     *)
(* smtp_send.py.                                                           *)
(*                                                                         *)
(* Numbers.  Temperatures are Python floats.  They are modelled as         *)
(* integers counting thousandths (0.7 is 700), the precision of           *)
(* round(temp, 3).  The value base * (1.0 + 0.10 * (i - center)) is        *)
(* base * (21 + 2i - count) / 20, so unrounded values are integers         *)
(* counting 1/20 of a thousandth ("fine" units).  A value that lies        *)
(* exactly half-way between two thousandths has no exact binary float:     *)
(* which neighbour round() returns depends on the representation error of  *)
(* the product, so the model lets it be either.                            *)
(***************************************************************************)
EXTENDS Integers, Sequences, FiniteSets, TLC

VARIABLES
    \* ---- compute_spread_temperatures called on its own
    fn_pc, fn_base, fn_count, fn_out,
    \* ---- one /generate request
    pc, req, temps, idx, collected, calls, outcomes, status, detail, returned,
    \* ---- one send_email_smtp call
    smtp_pc, max_retries, attempt, tries, smtp_ret

fn_vars   == <<fn_pc, fn_base, fn_count, fn_out>>
gen_vars  == <<pc, req, temps, idx, collected, calls, outcomes, status, detail, returned>>
smtp_vars == <<smtp_pc, max_retries, attempt, tries, smtp_ret>>
vars      == <<fn_vars, gen_vars, smtp_vars>>

(***************************************************************************)
(* Constants of the program and bounds of the model                        *)
(***************************************************************************)
\* 1.0 in thousandths: the upper clamp, and the precision of round(temp, 3)
Milli == 1000
\* fine units per thousandth: 1.0 + 0.10 * (i - (count - 1) / 2.0) in twentieths
Fine == 20
\* the default `base_temp or 0.7`, in thousandths
DefaultTemp == 700
\* GenerateRequest.variants: Field(1, ge=1, le=10)
MinVariants == 1
MaxVariants == 10
\* Python's None for the Optional numeric fields of a request
None == -999999
\* how far outside [0.0, 1.0] the bases given to the function alone reach
MaxOver == 60
\* the largest max_retries given to send_email_smtp
MaxRetries == 4

(***************************************************************************)
(* compute_spread_temperatures                                             *)
(***************************************************************************)
\* Python's `x or d` on a number: None and 0 (0.0) are falsy
OrDefault(x, d) == IF x = None \/ x = 0 THEN d ELSE x

Min(a, b) == IF a <= b THEN a ELSE b
Max(a, b) == IF a >= b THEN a ELSE b

\* a faulty clamp: the upper bound forgotten
ClampLowOnly(x, one) == Max(0, x)

\* max(0.0, min(1.0, x)), x and the result in the unit in which 1.0 is `one`
Clamp(x, one) == Max(0, Min(one, x))

\* a faulty rounding: the value cut to 3 decimals
Round3Trunc(x) == {x \div Fine}

\* round(x, 3) of a clamped value in fine units: the set of thousandths the
\* float rounding can give (two of them only at an exact half)
Round3(x) ==
    LET q == x \div Fine
        r == x % Fine
    IN  IF 2 * r < Fine THEN {q}
        ELSE IF 2 * r > Fine THEN {q + 1}
        ELSE {q, q + 1}

\* base * (1.0 + 0.10 * (i - center)), center = (count - 1) / 2.0, in fine units
RawTemp(base, count, i) == base * (Fine + 1 + 2 * i - count)

\* the lists the loop `for i in range(count)` can have built after n rounds
RECURSIVE SpreadLoop(_, _, _)
SpreadLoop(base, count, n) ==
    IF n = 0 THEN {<<>>}
    ELSE {Append(p, t) : p \in SpreadLoop(base, count, n - 1),
                         t \in Round3(Clamp(RawTemp(base, count, n - 1), Milli * Fine))}

\* a faulty spread: the loop runs over range(count - 1)
spread_one_short(base_temp, count) ==
    LET base == OrDefault(base_temp, DefaultTemp)
    IN  IF count <= 1 THEN {<<Clamp(base, Milli)>>}
        ELSE SpreadLoop(base, count, count - 1)

\* the lists compute_spread_temperatures(base_temp, count) can return
compute_spread_temperatures(base_temp, count) ==
    LET base == OrDefault(base_temp, DefaultTemp)
    IN  IF count <= 1 THEN {<<Clamp(base, Milli)>>}
        ELSE SpreadLoop(base, count, count)

FnInitVars ==
    /\ fn_pc = "call"
    /\ fn_base \in (0 - MaxOver)..(Milli + MaxOver)
    /\ fn_count \in 0..MaxVariants
    /\ fn_out = <<>>

FnIdle == fn_pc = "idle" /\ fn_base = 0 /\ fn_count = 0 /\ fn_out = <<>>

\* one call of the function: it returns one of the lists the build can produce
FnCall ==
    /\ fn_pc = "call"
    /\ fn_out' \in compute_spread_temperatures(fn_base, fn_count)
    /\ fn_pc' = "returned"
    /\ UNCHANGED <<fn_base, fn_count, gen_vars, smtp_vars>>

(***************************************************************************)
(* The provider's answers and their parsing                                *)
(***************************************************************************)
\* what dict.get gives for a key that is absent (or null)
Absent == "<None>"

\* JSON values the model's text can hold.  `tag` tells the answers of the
\* successive calls apart (it stands for the content, kept in raw_text).
NoVal == [kind |-> "none", head |-> "na", subject |-> Absent, body |-> Absent, tag |-> 0]
Dict(s, b, n) == [kind |-> "dict", head |-> "na", subject |-> s, body |-> b, tag |-> n]
\* a JSON list: head is the type of its first element ("empty" for [])
List(h, s, b, n) == [kind |-> "list", head |-> h, subject |-> s, body |-> b, tag |-> n]
Scalar(n) == [kind |-> "scalar", head |-> "na", subject |-> Absent, body |-> Absent, tag |-> n]

\* a text is a sequence of tokens: whitespace, the fences ```json and ```,
\* one JSON value, or anything else
Tok(t) == [tok |-> t, val |-> NoVal]
Json(v) == [tok |-> "json", val |-> v]

JsonValues(n) ==
    {Dict(s, b, n) : s \in {Absent, "", "S"}, b \in {Absent, "", "B"}}
    \cup {List("dict", s, b, n) : s \in {"", "S"}, b \in {Absent, "B"}}
    \cup {List("empty", Absent, Absent, n), List("scalar", Absent, Absent, n), Scalar(n)}

Texts(n) ==
    {<<Json(v)>> : v \in JsonValues(n)}
    \cup {<<Tok("fence_json"), Tok("ws"), Json(v), Tok("ws"), Tok("fence")>> : v \in JsonValues(n)}
    \cup {<<Tok("ws"), Tok("fence"), Json(Dict("S", "B", n)), Tok("fence"), Tok("ws")>>,
          <<Tok("ws"), Json(Dict("S", "B", n)), Tok("ws")>>,
          <<Tok("junk")>>,
          <<Tok("junk"), Json(Dict("S", "B", n))>>,
          <<Json(Dict("S", "B", n)), Json(Dict("S", "B", n))>>,
          <<Tok("fence_json"), Tok("fence")>>,
          <<>>}

\* what the provider can do with the n-th call
Responses(n) ==
    {[kind |-> k, text |-> <<>>] :
        k \in {"transport_error", "http_error", "bad_body", "no_choices", "no_content",
               "content_null"}}
    \cup {[kind |-> "content", text |-> t] : t \in Texts(n)}

\* call_openrouter: requests.post, raise_for_status, resp.json() or the lookup
\* data["choices"][0]["message"]["content"] raises
CallRaises(resp) ==
    resp.kind \in {"transport_error", "http_error", "bad_body", "no_choices", "no_content"}

\* call_openrouter's return value: the content, None when the provider sent null
call_openrouter(resp) ==
    [isNone |-> resp.kind = "content_null", text |-> resp.text]

\* str.strip(): leading and trailing whitespace goes
RECURSIVE LStrip(_)
LStrip(s) == IF s # <<>> /\ Head(s).tok = "ws" THEN LStrip(Tail(s)) ELSE s
RECURSIVE RStrip(_)
RStrip(s) ==
    IF s # <<>> /\ s[Len(s)].tok = "ws" THEN RStrip(SubSeq(s, 1, Len(s) - 1)) ELSE s
Strip(s) == RStrip(LStrip(s))

\* str.replace(fence, "")
Replace(s, fence) == SelectSeq(s, LAMBDA t : t.tok # fence)

\* json.loads: exactly one JSON value, whitespace around it allowed
JsonLoads(s) ==
    LET body == SelectSeq(s, LAMBDA t : t.tok # "ws")
    IN  IF Len(body) = 1 /\ body[1].tok = "json"
        THEN [ok |-> TRUE, val |-> body[1].val]
        ELSE [ok |-> FALSE, val |-> NoVal]

\* extract_first_json(raw): ok is FALSE when it raises (None has no strip();
\* json.loads failed)
extract_first_json(raw) ==
    IF raw.isNone THEN [ok |-> FALSE, val |-> NoVal]
    ELSE JsonLoads(Replace(Replace(Strip(raw.text), "fence_json"), "fence"))

\* the isinstance chain: the object the variant is read from, if any
HasVariantObj(parsed) ==
    \/ parsed.kind = "dict"
    \/ parsed.kind = "list" /\ parsed.head = "dict"

\* a faulty validation: `not subject and not body`
MissingBoth(variant_obj) ==
    /\ variant_obj.subject \in {Absent, ""}
    /\ variant_obj.body \in {Absent, ""}

\* `not subject or not body`
MissingSubjectBody(variant_obj) ==
    \/ variant_obj.subject \in {Absent, ""}
    \/ variant_obj.body \in {Absent, ""}

\* VariantModel(subject=..., body=..., raw_text=json.dumps(variant_obj))
VariantModel(variant_obj) ==
    [subject |-> variant_obj.subject, body |-> variant_obj.body, tag |-> variant_obj.tag]

\* what the n-th answer is, whatever the handler makes of it
StepOutcome(resp) ==
    IF CallRaises(resp) \/ resp.kind = "content_null" THEN "call_failed"
    ELSE LET p == extract_first_json(call_openrouter(resp))
         IN  IF ~p.ok THEN "parse_failed"
             ELSE IF ~HasVariantObj(p.val) THEN "shape_failed"
             ELSE IF MissingSubjectBody(p.val) THEN "validation_failed"
             ELSE "ok"

(***************************************************************************)
(* generate_endpoint                                                       *)
(***************************************************************************)
\* temperatures a request is made with (thousandths, within ge=0.0, le=1.0):
\* the falsy 0.0, small bases whose steps round together, bases whose spread
\* has exact halves, the default, and bases whose spread is clamped at 1.0
ReqTemperatures == {0, 1, 5, 10, 300, 600, 700, 950, 1000}

NoDetail == [kind |-> "", variant |-> 0]

GenInitVars ==
    /\ pc = "start"
    /\ req \in [temperature : ReqTemperatures \cup {None},
                variants : (MinVariants..MaxVariants) \cup {None}]
    /\ temps = <<>>
    /\ idx = 0
    /\ collected = <<>>
    /\ calls = <<>>
    /\ outcomes = <<>>
    /\ status = 0
    /\ detail = NoDetail
    /\ returned = <<>>

GenIdle ==
    /\ pc = "idle"
    /\ req = [temperature |-> None, variants |-> None]
    /\ temps = <<>>
    /\ idx = 0
    /\ collected = <<>>
    /\ calls = <<>>
    /\ outcomes = <<>>
    /\ status = 0
    /\ detail = NoDetail
    /\ returned = <<>>

\* raise HTTPException(status_code=code, detail=...): the request ends, nothing
\* is returned
HTTPException(code, kind, variant) ==
    /\ pc' = "raised"
    /\ status' = code
    /\ detail' = [kind |-> kind, variant |-> variant]
    /\ UNCHANGED <<collected, idx, returned>>

\* an exception that is no HTTPException leaves the handler: no status and no
\* detail of the handler's reach the caller
Unhandled(kind) ==
    /\ pc' = "unhandled"
    /\ detail' = [kind |-> kind, variant |-> 0]
    /\ UNCHANGED <<collected, idx, returned, status>>

\* the lines before the loop: the request's fields and the temperature list
Prepare ==
    /\ pc = "start"
    /\ LET variants_count == OrDefault(req.variants, 1)
           base_temp == OrDefault(req.temperature, DefaultTemp)
       IN  temps' \in compute_spread_temperatures(base_temp, variants_count)
    /\ pc' = "loop"
    /\ collected' = <<>>
    /\ idx' = 0
    /\ UNCHANGED <<req, calls, outcomes, status, detail, returned, fn_vars, smtp_vars>>

\* a faulty loop body: a failed call is skipped (`continue`), not raised
HandleAnswerSkipFailedCall(resp) ==
    IF CallRaises(resp)
    THEN /\ idx' = idx + 1
         /\ UNCHANGED <<collected, pc, status, detail, returned>>
    ELSE LET raw == call_openrouter(resp)
             p == extract_first_json(raw)
         IN  IF ~p.ok
             THEN IF raw.isNone
                  THEN Unhandled("TypeError")
                  ELSE HTTPException(500, "Failed to parse model JSON for variant", idx + 1)
             ELSE IF ~HasVariantObj(p.val)
             THEN HTTPException(500, "Unexpected model response type for variant", idx + 1)
             ELSE IF MissingSubjectBody(p.val)
             THEN HTTPException(500, "Missing subject/body", idx + 1)
             ELSE /\ collected' = Append(collected, VariantModel(p.val))
                  /\ idx' = idx + 1
                  /\ UNCHANGED <<pc, status, detail, returned>>

\* a faulty loop body: an invalid variant is skipped (`continue`), not raised
HandleAnswerSkipInvalid(resp) ==
    IF CallRaises(resp)
    THEN HTTPException(503, "OpenRouter error on variant", idx + 1)
    ELSE LET raw == call_openrouter(resp)
             p == extract_first_json(raw)
         IN  IF ~p.ok
             THEN IF raw.isNone
                  THEN Unhandled("TypeError")
                  ELSE HTTPException(500, "Failed to parse model JSON for variant", idx + 1)
             ELSE IF ~HasVariantObj(p.val)
             THEN HTTPException(500, "Unexpected model response type for variant", idx + 1)
             ELSE IF MissingSubjectBody(p.val)
             THEN /\ idx' = idx + 1
                  /\ UNCHANGED <<collected, pc, status, detail, returned>>
             ELSE /\ collected' = Append(collected, VariantModel(p.val))
                  /\ idx' = idx + 1
                  /\ UNCHANGED <<pc, status, detail, returned>>

\* what one round of the loop does with the provider's answer
HandleAnswer(resp) ==
    IF CallRaises(resp)
    THEN HTTPException(503, "OpenRouter error on variant", idx + 1)
    ELSE LET raw == call_openrouter(resp)
             p == extract_first_json(raw)
         IN  IF ~p.ok
             THEN \* the detail is built with raw[:1000]
                  IF raw.isNone
                  THEN Unhandled("TypeError")
                  ELSE HTTPException(500, "Failed to parse model JSON for variant", idx + 1)
             ELSE IF ~HasVariantObj(p.val)
             THEN HTTPException(500, "Unexpected model response type for variant", idx + 1)
             ELSE IF MissingSubjectBody(p.val)
             THEN HTTPException(500, "Missing subject/body", idx + 1)
             ELSE /\ collected' = Append(collected, VariantModel(p.val))
                  /\ idx' = idx + 1
                  /\ UNCHANGED <<pc, status, detail, returned>>

\* one round of `for idx, temp in enumerate(temps)`: the call with temps[idx],
\* then parsing, the shape check, the validation and the append
Iterate ==
    /\ pc = "loop"
    /\ idx < Len(temps)
    /\ \E resp \in Responses(idx) :
          /\ calls' = Append(calls, temps[idx + 1])
          /\ outcomes' = Append(outcomes, StepOutcome(resp))
          /\ HandleAnswer(resp)
    /\ UNCHANGED <<req, temps, fn_vars, smtp_vars>>

\* after the loop: the empty check and the return
Finish ==
    /\ pc = "loop"
    /\ idx = Len(temps)
    /\ IF collected = <<>>
       THEN /\ pc' = "raised"
            /\ status' = 500
            /\ detail' = [kind |-> "No valid variants produced.", variant |-> 0]
            /\ UNCHANGED returned
       ELSE /\ pc' = "returned"
            /\ status' = 200
            /\ returned' = collected
            /\ UNCHANGED detail
    /\ UNCHANGED <<req, temps, idx, collected, calls, outcomes, fn_vars, smtp_vars>>

(***************************************************************************)
(* send_email_smtp                                                         *)
(***************************************************************************)
SmtpInitVars ==
    /\ smtp_pc = "loop"
    /\ max_retries \in 0..MaxRetries
    /\ attempt = 0
    /\ tries = <<>>
    /\ smtp_ret = "none"

SmtpIdle ==
    /\ smtp_pc = "idle"
    /\ max_retries = 0
    /\ attempt = 0
    /\ tries = <<>>
    /\ smtp_ret = "none"

\* how one pass through the try block can end: _connect_smtp, sendmail or quit
\* raises, or all three pass
TryResults == {"connect_failed", "sendmail_failed", "quit_failed", "sent"}

\* a faulty loop condition: `while attempt <= max_retries`
WhileInclusive(a, m) == a <= m

\* the loop's condition, `attempt < max_retries`
WhileCondition(a, m) == a < m

\* one round of `while attempt < max_retries`
Attempt ==
    /\ smtp_pc = "loop"
    /\ WhileCondition(attempt, max_retries)
    /\ \E r \in TryResults :
          /\ tries' = Append(tries, r)
          /\ IF r = "sent"
             THEN /\ smtp_ret' = "True"
                  /\ smtp_pc' = "done"
                  /\ UNCHANGED attempt
             ELSE /\ attempt' = attempt + 1
                  /\ UNCHANGED <<smtp_ret, smtp_pc>>
    /\ UNCHANGED <<max_retries, fn_vars, gen_vars>>

\* the loop's condition fails: return False
GiveUp ==
    /\ smtp_pc = "loop"
    /\ ~WhileCondition(attempt, max_retries)
    /\ smtp_ret' = "False"
    /\ smtp_pc' = "done"
    /\ UNCHANGED <<max_retries, attempt, tries, fn_vars, gen_vars>>

(***************************************************************************)
(* Specifications                                                          *)
(***************************************************************************)
\* one /generate request
Init == GenInitVars /\ FnIdle /\ SmtpIdle
Next == Prepare \/ Iterate \/ Finish
Spec == Init /\ [][Next]_vars

\* compute_spread_temperatures on every base and count
FnInit == FnInitVars /\ GenIdle /\ SmtpIdle
FnNext == FnCall
FnSpec == FnInit /\ [][FnNext]_vars

\* one send_email_smtp call; the loop's rounds are not held up for ever
\* (connect and send time out, sleep returns)
SmtpInit == SmtpInitVars /\ FnIdle /\ GenIdle
SmtpNext == Attempt \/ GiveUp
SmtpSpec == SmtpInit /\ [][SmtpNext]_vars /\ WF_vars(SmtpNext)

(***************************************************************************)
(* Properties                                                              *)
(***************************************************************************)
Abs(x) == IF x < 0 THEN 0 - x ELSE x
Last(s) == s[Len(s)]
Ended == pc \in {"returned", "raised", "unhandled"}
AllOk == \A k \in 1..Len(outcomes) : outcomes[k] = "ok"
NonEmpty(x) == x \notin {Absent, ""}

\* C1: a request with variants = N in 1..10 whose calls and normalizations all
\* succeed makes exactly N model calls, call i with temps[i] in ascending
\* index order, and returns exactly N variants, variant i the one produced
\* from call i.
C1_CallsAndVariantsInOrder ==
    req.variants # None =>
        /\ pc # "start" => Len(temps) = req.variants
        /\ Len(calls) <= Len(temps)
        /\ \A i \in 1..Len(calls) : calls[i] = temps[i]
        /\ (Ended /\ AllOk) =>
              /\ pc = "returned"
              /\ Len(calls) = req.variants
              /\ Len(returned) = req.variants
              /\ \A i \in 1..Len(returned) : returned[i].tag = i - 1

C1_Witness ==
    /\ pc = "returned"
    /\ req.variants = 3
    /\ Len(calls) = 3
    /\ Len(returned) = 3
    /\ calls[1] < calls[3]

\* C2: a failure at variant index k (call, parse, shape or validation) aborts
\* the request at once: it ends in an error, no variant list is returned (the
\* k collected variants are discarded) and no call is made for a later index.
C2_FailureAborts ==
    \A k \in 1..Len(outcomes) :
        outcomes[k] # "ok" =>
            /\ pc \in {"raised", "unhandled"}
            /\ returned = <<>>
            /\ Len(outcomes) = k
            /\ Len(calls) = k
            /\ Len(collected) = k - 1

C2_Witness ==
    /\ pc = "raised"
    /\ req.variants = 3
    /\ Len(outcomes) = 2
    /\ outcomes[2] = "call_failed"
    /\ Len(collected) = 1
    /\ returned = <<>>

\* C3: every failed request ends with a status for the failure class and a
\* detail naming the failing variant: 503 for any failure of the model call
\* (transport, status, missing choices/content), 500 for a parse, shape or
\* validation failure; no failure ends the request otherwise.
C3_FailureStatus ==
    (outcomes # <<>> /\ Last(outcomes) # "ok") =>
        /\ pc = "raised"
        /\ detail.variant = Len(outcomes)
        /\ Last(outcomes) = "call_failed" => status = 503
        /\ Last(outcomes) \in {"parse_failed", "shape_failed", "validation_failed"}
              => status = 500

\* C4: for count in 1..10 and base in [0, 1] the function returns exactly
\* count values, each in [0.0, 1.0].
C4_CountValuesInRange ==
    (fn_pc = "returned" /\ fn_count \in MinVariants..MaxVariants /\ fn_base \in 0..Milli) =>
        /\ Len(fn_out) = fn_count
        /\ \A i \in 1..Len(fn_out) : fn_out[i] \in 0..Milli

C4_Witness ==
    /\ fn_pc = "returned"
    /\ fn_base = Milli
    /\ fn_count = MaxVariants
    /\ Len(fn_out) = MaxVariants
    /\ fn_out[MaxVariants] = Milli
    /\ fn_out[1] < Milli

\* C5: for any base x, compute_spread_temperatures(x, 1) is the one-element
\* list [clamp(x, 0.0, 1.0)] (x = 0.0 included).
C5_SingleIsClampedBase ==
    (fn_pc = "returned" /\ fn_count = 1) => fn_out = <<Clamp(fn_base, Milli)>>

\* C6: for count in 1..10 and base in [0, 1] the list is symmetric around
\* base: the value at i is clamp(2*base - unclamped value at count-1-i)
\* within the 3-decimal rounding (half a thousandth).
C6_SymmetricAroundBase ==
    (fn_pc = "returned" /\ fn_count \in MinVariants..MaxVariants /\ fn_base \in 0..Milli) =>
        \A i \in 0..(Len(fn_out) - 1) :
            2 * Abs(fn_out[i + 1] * Fine
                    - Clamp(2 * fn_base * Fine - RawTemp(fn_base, fn_count, fn_count - 1 - i),
                            Milli * Fine)) <= Fine

\* the base the function computes with: `float(base_temp or 0.7)`
UsedBase == OrDefault(fn_base, DefaultTemp)
\* the clamped, unrounded value at index i, in fine units
Unrounded(i) == Clamp(RawTemp(UsedBase, fn_count, i), Milli * Fine)
SpreadCase == fn_pc = "returned" /\ fn_count \in 2..MaxVariants /\ fn_base \in 0..Milli

C7_VariantsHaveSubjectAndBody ==
    /\ \A i \in 1..Len(collected) :
          NonEmpty(collected[i].subject) /\ NonEmpty(collected[i].body)
    /\ \A i \in 1..Len(returned) :
          NonEmpty(returned[i].subject) /\ NonEmpty(returned[i].body)
    /\ (outcomes # <<>> /\ Last(outcomes) = "validation_failed") =>
          /\ pc = "raised"
          /\ status = 500
          /\ detail = [kind |-> "Missing subject/body", variant |-> Len(outcomes)]
          /\ Len(collected) = Len(outcomes) - 1
    /\ detail.kind = "Missing subject/body" => Last(outcomes) = "validation_failed"

C7_Witness ==
    /\ pc = "raised"
    /\ status = 500
    /\ detail = [kind |-> "Missing subject/body", variant |-> 2]
    /\ Len(collected) = 1

\* C9: for a valid request the empty-accumulator branch ('No valid variants
\* produced', 500) is never taken: while the loop runs the accumulator holds
\* one variant per completed round, and when the loop is over it holds at
\* least one.
C9_EmptyBranchUnreachable ==
    /\ detail.kind # "No valid variants produced."
    /\ pc = "loop" => Len(collected) = idx
    /\ (pc = "loop" /\ idx = Len(temps)) => collected # <<>>
    /\ pc = "returned" => returned # <<>>

C9_Witness ==
    /\ pc = "loop"
    /\ idx = Len(temps)
    /\ Len(collected) = 1

\* C10: send_email_smtp terminates for max_retries >= 0; it makes at most
\* max_retries attempts, none after the first successful one, after which it
\* returns True; it returns False only after exactly max_retries attempts
\* that all failed; the attempt counter only increases, and only on failure.
C10_BoundedRetries ==
    /\ <>(smtp_pc = "done")
    /\ [](/\ Len(tries) <= max_retries
          /\ \A i \in 1..(Len(tries) - 1) : tries[i] # "sent"
          /\ attempt = Cardinality({i \in 1..Len(tries) : tries[i] # "sent"})
          /\ smtp_ret = "True" <=> (tries # <<>> /\ Last(tries) = "sent")
          /\ smtp_ret = "False" =>
                /\ Len(tries) = max_retries
                /\ \A i \in 1..Len(tries) : tries[i] # "sent"
          /\ smtp_pc = "done" <=> smtp_ret # "none")
    /\ [][/\ attempt' >= attempt
          /\ attempt' > attempt =>
                /\ attempt' = attempt + 1
                /\ tries' = Append(tries, Last(tries'))
                /\ Last(tries') # "sent"
          /\ smtp_ret # "none" => tries' = tries]_vars

C10_Witness ==
    /\ smtp_pc = "done"
    /\ smtp_ret = "False"
    /\ max_retries = 3
    /\ Len(tries) = 3
    /\ attempt = 3

====
